---- MODULE Spec2Model ----
(***************************************************************************)
(* A model of the planar-geometry kernel of src/geometry/main.py: Point,   *)
(* Line (general form a*x + b*y + c = 0), Segment, Polygon and the global  *)
(* tolerance EPSILON.                                                      *)
(*                                                                         *)
(* Numbers are exact rationals [n, d] in lowest terms with d > 0; Python's *)
(* float('inf') is the value INF.  An operation that raises in the code    *)
(* yields an Error value naming the exception.                             *)
(***************************************************************************)
EXTENDS Integers, Sequences, FiniteSets

VARIABLES EPSILON, args, op, res

vars == <<EPSILON, args, op, res>>

\* ---------------------------------------------------------------- bounds
MaxCoord == 2
MaxIcpt == 1
MaxSlope == 1
MaxCoef == 1
MaxScale == 2
MaxQuadCoord == 1
MaxIntSlope == 2

\* EPSILON = Epsilon(1e-6): the denominator of the default tolerance
EpsilonDenominator == 1000000

\* ------------------------------------------------------------- numbers
RECURSIVE GCD(_, _)
GCD(m, n) == IF n = 0 THEN m ELSE GCD(n, m % n)

IntAbs(i) == IF i < 0 THEN -i ELSE i

\* the rational n/d (d # 0) in lowest terms
Rat(n, d) ==
    LET g == GCD(IntAbs(n), IntAbs(d))
        s == IF d < 0 THEN -1 ELSE 1
    IN  [n |-> (s * n) \div g, d |-> (s * d) \div g]

Q(i) == [n |-> i, d |-> 1]

\* float('inf')
INF == [n |-> 1, d |-> 0]

RAdd(x, y) == Rat(x.n * y.d + y.n * x.d, x.d * y.d)
RSub(x, y) == Rat(x.n * y.d - y.n * x.d, x.d * y.d)
RMul(x, y) == Rat(x.n * y.n, x.d * y.d)
RNeg(x) == [n |-> -x.n, d |-> x.d]
RAbs(x) == [n |-> IntAbs(x.n), d |-> x.d]
\* x / y for y # 0 (the callers guard the division as the code does)
RDiv(x, y) == Rat(x.n * y.d, x.d * y.n)
RLe(x, y) == x.n * y.d <= y.n * x.d

\* float('nan') and -float('inf')
NAN == [n |-> 0, d |-> 0]
NINF == [n |-> -1, d |-> 0]

IsFinite(x) == x.d # 0

Sign(x) == IF x.n > 0 THEN 1 ELSE IF x.n < 0 THEN -1 ELSE 0

\* the float operations on values that may be inf or nan
XAdd(x, y) ==
    IF IsFinite(x) /\ IsFinite(y) THEN RAdd(x, y)
    ELSE IF x = NAN \/ y = NAN THEN NAN
    ELSE IF IsFinite(x) THEN y
    ELSE IF IsFinite(y) THEN x
    ELSE IF x = y THEN x ELSE NAN

XSub(x, y) == XAdd(x, RNeg(y))

XMul(x, y) ==
    IF IsFinite(x) /\ IsFinite(y) THEN RMul(x, y)
    ELSE IF x = NAN \/ y = NAN \/ Sign(x) * Sign(y) = 0 THEN NAN
    ELSE [n |-> Sign(x) * Sign(y), d |-> 0]

\* x / y for y # 0
XDiv(x, y) ==
    IF IsFinite(x) /\ IsFinite(y) THEN RDiv(x, y)
    ELSE IF x = NAN \/ y = NAN THEN NAN
    ELSE IF IsFinite(x) THEN Q(0)
    ELSE IF IsFinite(y) THEN [n |-> Sign(x) * Sign(y), d |-> 0]
    ELSE NAN

\* ------------------------------------------------- binary64 arithmetic
\* Python floats are IEEE-754 binary64: every operation returns the exact
\* result rounded to 53 significant bits, ties to even. A natural number of
\* any size is held as its digits in base 2^LimbBits, least significant
\* first, the last digit not 0.
MantissaBits == 53
LimbBits == 15
Base == 2^LimbBits

RECURSIVE BNat(_)
BNat(n) == IF n = 0 THEN <<>> ELSE <<n % Base>> \o BNat(n \div Base)

RECURSIVE BTrim(_)
BTrim(x) ==
    IF x = <<>> THEN <<>>
    ELSE IF x[Len(x)] = 0 THEN BTrim(SubSeq(x, 1, Len(x) - 1))
    ELSE x

\* x + y + carry
RECURSIVE BAdd(_, _, _)
BAdd(x, y, carry) ==
    IF x = <<>> /\ y = <<>> THEN BNat(carry)
    ELSE LET t == (IF x = <<>> THEN 0 ELSE Head(x))
                  + (IF y = <<>> THEN 0 ELSE Head(y)) + carry
         IN  <<t % Base>> \o BAdd(IF x = <<>> THEN <<>> ELSE Tail(x),
                                  IF y = <<>> THEN <<>> ELSE Tail(y),
                                  t \div Base)

\* x - y - borrow for x >= y + borrow (the high zero digits not removed)
RECURSIVE BSub(_, _, _)
BSub(x, y, borrow) ==
    IF x = <<>> THEN <<>>
    ELSE LET t == Head(x) - (IF y = <<>> THEN 0 ELSE Head(y)) - borrow
         IN  <<t % Base>> \o BSub(Tail(x), IF y = <<>> THEN <<>> ELSE Tail(y),
                                  IF t < 0 THEN 1 ELSE 0)

\* x < y, decided at the highest digit where they differ
RECURSIVE BLessFrom(_, _, _)
BLessFrom(x, y, i) ==
    IF i = 0 THEN FALSE
    ELSE IF x[i] # y[i] THEN x[i] < y[i]
    ELSE BLessFrom(x, y, i - 1)

BLess(x, y) ==
    IF Len(x) # Len(y) THEN Len(x) < Len(y) ELSE BLessFrom(x, y, Len(x))

\* x * k + carry for a small k (k <= Base)
RECURSIVE BMulSmall(_, _, _)
BMulSmall(x, k, carry) ==
    IF x = <<>> THEN BNat(carry)
    ELSE LET t == Head(x) * k + carry
         IN  <<t % Base>> \o BMulSmall(Tail(x), k, t \div Base)

\* quotient (high zero digits not removed) and remainder of x by a small
\* d > 0 (d <= Base)
RECURSIVE BDivSmall(_, _)
BDivSmall(x, d) ==
    IF x = <<>> THEN [q |-> <<>>, r |-> 0]
    ELSE LET hi == BDivSmall(Tail(x), d)
             t == hi.r * Base + Head(x)
         IN  [q |-> <<t \div d>> \o hi.q, r |-> t % d]

\* the number of bits of a small n
RECURSIVE Len2(_)
Len2(n) == IF n = 0 THEN 0 ELSE 1 + Len2(n \div 2)

\* the number of bits of x
BitLen(x) == IF x = <<>> THEN 0 ELSE LimbBits * (Len(x) - 1) + Len2(x[Len(x)])

\* x * 2^k
BShl(x, k) ==
    IF x = <<>> THEN <<>>
    ELSE [i \in 1..(k \div LimbBits) |-> 0] \o BMulSmall(x, 2^(k % LimbBits), 0)

\* x \div 2^k, and whether a 1 bit was shifted out
BShr(x, k) ==
    LET w == k \div LimbBits
        dv == BDivSmall(SubSeq(x, w + 1, Len(x)), 2^(k % LimbBits))
    IN  [q |-> BTrim(dv.q),
         lost |-> dv.r # 0 \/ \E i \in 1..w : x[i] # 0]

\* the float with sign s, mantissa m (MantissaBits bits) and exponent e:
\* s * m * 2^e; the float 0.0 has no mantissa (-0.0 == 0.0 in Python)
Binary64(s, m, e) == [kind |-> "binary64", s |-> s, m |-> m, e |-> e]
Zero64 == Binary64(1, <<>>, 0)

\* the exact value s * (N / d) * 2^E, d > 0 small, rounded to the nearest
\* float, ties to even: the quotient is taken with more than MantissaBits
\* bits, H is its top MantissaBits + 1 bits (the last one the guard bit)
Round64(s, N, d, E) ==
    IF N = <<>> THEN Zero64
    ELSE LET k == MantissaBits + Len2(d)
             qr == BDivSmall(BShl(N, k), d)
             Qt == BTrim(qr.q)
             t == BitLen(Qt) - MantissaBits
             H == BShr(Qt, t - 1)
             kept == BShr(H.q, 1).q
             sticky == qr.r # 0 \/ H.lost
             up == H.q[1] % 2 = 1 /\ (sticky \/ kept[1] % 2 = 1)
             m == IF up THEN BAdd(kept, <<>>, 1) ELSE kept
         IN  IF BitLen(m) > MantissaBits
             THEN Binary64(s, BShr(m, 1).q, E - k + t + 1)
             ELSE Binary64(s, m, E - k + t)

SignOf(n) == IF n < 0 THEN -1 ELSE 1

\* n / d for ints n, d (d # 0): Python's true division, correctly rounded
IntTrueDiv(n, d) ==
    Round64(SignOf(n) * SignOf(d), BNat(IntAbs(n)), IntAbs(d), 0)

\* k * X for an int k and a float X
IntTimes64(k, X) ==
    IF k = 0 THEN Zero64
    ELSE Round64(SignOf(k) * X.s, BMulSmall(X.m, IntAbs(k), 0), 1, X.e)

\* X / b for a float X and an int b # 0
Over64(X, b) == Round64(X.s * SignOf(b), X.m, IntAbs(b), X.e)

\* X - c for a float X and an int c
Minus64(X, c) ==
    IF c = 0 THEN X
    ELSE LET e0 == IF X.e < 0 THEN X.e ELSE 0
             Mx == BShl(X.m, X.e - e0)
             Mc == BShl(BNat(IntAbs(c)), -e0)
         IN  IF X.s = -SignOf(c) THEN Round64(X.s, BAdd(Mx, Mc, 0), 1, e0)
             ELSE IF BLess(Mx, Mc)
             THEN Round64(-SignOf(c), BTrim(BSub(Mc, Mx, 0)), 1, e0)
             ELSE Round64(X.s, BTrim(BSub(Mx, Mc, 0)), 1, e0)

\* --------------------------------------------------------------- values
NONE == [kind |-> "None"]
Error(name) == [kind |-> "Error", name |-> name]
Bool(v) == [kind |-> "Bool", v |-> v]
Point(x, y) == [kind |-> "Point", x |-> x, y |-> y]
Line(a, b, c) == [kind |-> "Line", a |-> a, b |-> b, c |-> c]
Segment(A, B) == [kind |-> "Segment", A |-> A, B |-> B]

List(items) == [kind |-> "List", items |-> items]

\* a float result
Float(v) == [kind |-> "Float", v |-> v]

\* the float sqrt(sq), a value >= 0 held by its square (Root(NAN) is nan)
Root(sq) == [kind |-> "Root", sq |-> sq]

\* the float sum of the values sqrt(terms[i]), in the order they are added
RootSum(terms) == [kind |-> "RootSum", terms |-> terms]

IsError(v) == "kind" \in DOMAIN v /\ v.kind = "Error"

\* what the caller of a float-valued method receives: the float, or the
\* exception the method raised
FloatOrError(v) == IF IsError(v) THEN v ELSE Float(v)

\* mutant: the assignment carried out, as on a dataclass that is not frozen
Plain_setattr(obj, name, value) ==
    [obj |-> [obj EXCEPT ![name] = value], raised |-> NONE]

\* obj.name = value on a dataclass(frozen=True): the object as it is after
\* the statement, and what the statement raised
Frozen_setattr(obj, name, value) ==
    [obj |-> obj, raised |-> Error("FrozenInstanceError")]

\* ------------------------------------------------------ free functions
\* gradient(p, q): (py - qy) / (px - qx), ZeroDivisionError when px = qx
gradient(p, q) ==
    IF p.x = q.x THEN Error("ZeroDivisionError")
    ELSE RDiv(RSub(p.y, q.y), RSub(p.x, q.x))

\* math.dist(p, q)
dist(p, q) ==
    Root(RAdd(RMul(RSub(p.x, q.x), RSub(p.x, q.x)),
              RMul(RSub(p.y, q.y), RSub(p.y, q.y))))

\* math.hypot(x, y)
hypot(x, y) == Root(XAdd(XMul(x, x), XMul(y, y)))

RECURSIVE RSum(_)
RSum(s) == IF s = <<>> THEN Q(0) ELSE RAdd(Head(s), RSum(Tail(s)))

\* statistics.mean
mean(s) == RDiv(RSum(s), Q(Len(s)))

\* statistics.mean of two floats that may be inf
mean2(x, y) == XDiv(XAdd(x, y), Q(2))

\* midpoint(*p): the componentwise mean, as the tuple (x, y)
midpoint(ps) ==
    <<mean([i \in 1..Len(ps) |-> ps[i].x]), mean([i \in 1..Len(ps) |-> ps[i].y])>>

\* ---------------------------------------------------------------- Point
\* mutant: the distance measured from the origin instead of from p
Point_dist_from_origin(p, other) ==
    IF other.kind = "Point" THEN dist(Point(Q(0), Q(0)), other)
    ELSE Error("NotImplementedError")

\* p.dist(other): hypot(a, b) = 0.0 makes the division raise
Point_dist(p, other) ==
    IF other.kind = "Point" THEN dist(p, other)
    ELSE IF other.kind = "Line"
    THEN IF hypot(other.a, other.b) = Root(Q(0)) THEN Error("ZeroDivisionError")
         ELSE LET r == RAdd(RAdd(RMul(other.a, p.x), RMul(other.b, p.y)), other.c)
              IN  Root(XDiv(XMul(r, r), hypot(other.a, other.b).sq))
    ELSE Error("NotImplementedError")

\* ----------------------------------------------------------------- Line
Line_y(l) == IF l.b = Q(0) THEN NONE ELSE Point(Q(0), RDiv(RNeg(l.c), l.b))

\* mutant: the division by zero answered with 0.0
Line_slope_flat(l) == IF l.b = Q(0) THEN Q(0) ELSE XDiv(RNeg(l.a), l.b)

Line_slope(l) == IF l.b = Q(0) THEN INF ELSE XDiv(RNeg(l.a), l.b)

Line_intercept(l) == IF l.b = Q(0) THEN INF ELSE XDiv(RNeg(l.c), l.b)

\* mutant: the tolerance read once, when the module was loaded
Line_contains_cached(l, p) ==
    RLe(RAbs(RAdd(RAdd(RMul(l.a, p.x), RMul(l.b, p.y)), l.c)),
        Rat(1, EpsilonDenominator))

Line_contains(l, p) ==
    RLe(RAbs(RAdd(RAdd(RMul(l.a, p.x), RMul(l.b, p.y)), l.c)), EPSILON)

\* mutant: the field-wise equality a dataclass generates
Line_eq_fields(l, other) ==
    /\ other.kind = "Line"
    /\ l.a = other.a
    /\ l.b = other.b
    /\ l.c = other.c

Line_eq(l, other) ==
    /\ other.kind = "Line"
    /\ Line_slope(l) = Line_slope(other)
    /\ Line_intercept(l) = Line_intercept(other)

\* mutant: the general equation never divided by the other coefficient
Line_call_undivided(l, x, y) ==
    IF x # NONE /\ y = NONE
    THEN RSub(RMul(RNeg(l.a), x), l.c)
    ELSE IF y # NONE /\ x = NONE
    THEN RSub(RMul(RNeg(l.b), y), l.c)
    ELSE Error("GeometryException")

\* mutant: x used whenever it is given, whether or not y is given too
Line_call_x_first(l, x, y) ==
    IF x # NONE
    THEN IF l.b = Q(0) THEN RSub(RMul(RNeg(l.a), x), l.c)
         ELSE RDiv(RSub(RMul(RNeg(l.a), x), l.c), l.b)
    ELSE IF y # NONE
    THEN IF l.a = Q(0) THEN RSub(RMul(RNeg(l.b), y), l.c)
         ELSE RDiv(RSub(RMul(RNeg(l.b), y), l.c), l.a)
    ELSE Error("GeometryException")

\* hash(x) of an integer-valued number x (|x| < 2^61 - 1): the integer
\* itself, except that -1 hashes to -2
NumberHash(x) == IF x.n = -1 THEN -2 ELSE x.n

\* hash(l), generated by the dataclass: hash((l.a, l.b, l.c)). The hash of a
\* tuple is a function of the hashes of its items; the model keeps the tuple
\* of item hashes (fields are integer-valued here)
Line_hash(l) == <<NumberHash(l.a), NumberHash(l.b), NumberHash(l.c)>>

\* l(x=..., y=...): NONE stands for an argument left at None
Line_call(l, x, y) ==
    IF x # NONE /\ y = NONE
    THEN IF l.b = Q(0) THEN RSub(RMul(RNeg(l.a), x), l.c)
         ELSE RDiv(RSub(RMul(RNeg(l.a), x), l.c), l.b)
    ELSE IF y # NONE /\ x = NONE
    THEN IF l.a = Q(0) THEN RSub(RMul(RNeg(l.b), y), l.c)
         ELSE RDiv(RSub(RMul(RNeg(l.b), y), l.c), l.a)
    ELSE Error("GeometryException")

\* l(x) for a float x and a Line with int fields, in binary64:
\* (-a * x - c) / b, or -a * x - c when b == 0
Line_call_binary64(l, x) ==
    IF l.b = Q(0) THEN Minus64(IntTimes64(-l.a.n, x), l.c.n)
    ELSE Over64(Minus64(IntTimes64(-l.a.n, x), l.c.n), l.b.n)

\* l & other for Lines with int fields, the coordinates of the Point computed
\* in binary64 (denom and the numerator of x are ints, hence exact)
Line_intersect_binary64(l, other) ==
    LET denom == l.b.n * other.a.n - l.a.n * other.b.n
    IN  IF denom = 0
        THEN IF Line_intercept(l) # Line_intercept(other) THEN NONE
             ELSE Line(l.a, l.b, l.c)
        ELSE LET x == IntTrueDiv(l.c.n * other.b.n - l.b.n * other.c.n, denom)
                 y == IF Line_y(l) # NONE THEN Line_call_binary64(l, x)
                      ELSE Line_call_binary64(other, x)
             IN  Point(x, y)

\* mutant: equal slopes always taken for the identical case
Line_intersect_unchecked(l, other) ==
    LET denom == RSub(RMul(l.b, other.a), RMul(l.a, other.b))
    IN  IF denom = Q(0)
        THEN Line(l.a, l.b, l.c)
        ELSE LET x == RDiv(RSub(RMul(l.c, other.b), RMul(l.b, other.c)), denom)
                 y == IF Line_y(l) # NONE THEN Line_call(l, x, NONE)
                      ELSE Line_call(other, x, NONE)
             IN  Point(x, y)

\* mutant: the test of the intercepts inverted
Line_intersect_inverted(l, other) ==
    LET denom == RSub(RMul(l.b, other.a), RMul(l.a, other.b))
    IN  IF denom = Q(0)
        THEN IF Line_intercept(l) = Line_intercept(other) THEN NONE
             ELSE Line(l.a, l.b, l.c)
        ELSE LET x == RDiv(RSub(RMul(l.c, other.b), RMul(l.b, other.c)), denom)
                 y == IF Line_y(l) # NONE THEN Line_call(l, x, NONE)
                      ELSE Line_call(other, x, NONE)
             IN  Point(x, y)

Line_intersect(l, other) ==
    LET denom == RSub(RMul(l.b, other.a), RMul(l.a, other.b))
    IN  IF denom = Q(0)
        THEN IF Line_intercept(l) # Line_intercept(other) THEN NONE
             ELSE Line(l.a, l.b, l.c)
        ELSE LET x == RDiv(RSub(RMul(l.c, other.b), RMul(l.b, other.c)), denom)
                 y == IF Line_y(l) # NONE THEN Line_call(l, x, NONE)
                      ELSE Line_call(other, x, NONE)
             IN  Point(x, y)

Line_vline(x) == Line(Q(1), Q(0), RNeg(x))

Line_hline(y) == Line(Q(0), Q(0), y)

Line_from_slope_intercept_form(slope, intercept) == Line(slope, Q(-1), intercept)

\* mutant: C = -m*x1 - y1, the sign of y1 flipped
Line_from_point_slope_form_negated(point, slope) ==
    Line(slope, Q(-1), RSub(RNeg(RMul(slope, point.x)), point.y))

Line_from_point_slope_form(point, slope) ==
    Line(slope, Q(-1), XSub(point.y, XMul(slope, point.x)))

Line_from_points(a, b) ==
    IF a.x = b.x THEN Line_vline(a.x)
    ELSE Line_from_point_slope_form(a, gradient(a, b))

\* l.dist(other) for a Point or a Line
Line_dist(l, other) ==
    IF other.kind = "Point"
    THEN IF hypot(l.a, l.b) = Root(Q(0)) THEN Error("ZeroDivisionError")
         ELSE LET r == RAdd(RAdd(RMul(l.a, other.x), RMul(l.b, other.y)), l.c)
              IN  Root(XDiv(XMul(r, r), hypot(l.a, l.b).sq))
    ELSE IF other.kind = "Line"
    THEN LET m == Line_slope(l)
         IN  IF m # Line_slope(other) THEN Root(Q(0))
             ELSE LET d == RAbs(XSub(Line_intercept(l), Line_intercept(other)))
                  IN  Root(XDiv(XMul(d, d), hypot(m, Q(1)).sq))
    ELSE Error("NotImplementedError")

\* l ^ other
Line_bisect(l, other) ==
    LET m1 == Line_slope(l)
        q1 == Line_intercept(l)
        m2 == Line_slope(other)
        q2 == Line_intercept(other)
        m == mean2(m1, m2)
    IN  IF m1 = m2 THEN Line_from_slope_intercept_form(m, mean2(q1, q2))
        ELSE LET P == Line_intersect(l, other)
             IN  IF P.kind = "None" THEN Error("AttributeError")
                 ELSE IF P.kind = "Line" THEN Error("TypeError")
                 ELSE Line_from_point_slope_form(P, m)

\* the perpendicular to l through the point p
Line_perpendicular(l, p) ==
    IF Line_slope(l) = Q(0) THEN Error("ZeroDivisionError")
    ELSE LET m == XDiv(Q(-1), Line_slope(l))
             q == RSub(p.y, RMul(m, p.x))
         IN  Line_from_slope_intercept_form(m, q)

\* -------------------------------------------------------------- Segment
Segment_midpoint(s) ==
    LET m == midpoint(<<s.A, s.B>>) IN Point(m[1], m[2])

Segment_line(s) == Line_from_points(s.A, s.B)

Segment_median(s, other) == Segment(other, Segment_midpoint(s))

\* the perpendicular to the segment through the point `other`
Segment_perpendicular(s, other) ==
    LET denom == RSub(s.A.y, s.B.y)
    IN  IF denom = Q(0) THEN Line_vline(other.x)
        ELSE LET g == gradient(s.A, s.B)
             IN  IF IsError(g) THEN g
                 ELSE Line_from_point_slope_form(other, RDiv(Q(-1), g))

Segment_perpendicular_bisector(s) == Segment_perpendicular(s, Segment_midpoint(s))

\* -------------------------------------------------------------- Polygon
\* a list comprehension: the first element that raises ends it
Collect(items) ==
    IF \E i \in DOMAIN items : IsError(items[i])
    THEN items[CHOOSE i \in DOMAIN items :
                   /\ IsError(items[i])
                   /\ \A j \in DOMAIN items : IsError(items[j]) => i <= j]
    ELSE List(items)

\* zip(points, points[1:] + points) through Segment
Polygon_segments(points) ==
    [i \in 1..Len(points) |-> Segment(points[i], (Tail(points) \o points)[i])]

\* mutant: the closing edge left out, zip(points, points[1:])
Polygon_perimeter_open(points) ==
    RootSum([i \in 1..(Len(points) - 1) |-> dist(points[i], points[i + 1]).sq])

\* sum(map(dist, points, points[1:] + points))
Polygon_perimeter(points) ==
    RootSum([i \in 1..Len(points) |-> dist(points[i], (Tail(points) \o points)[i]).sq])

\* mutant: the closing term left out, zip(points, points[1:])
Polygon_area_open(points) ==
    RDiv(RAbs(RSum([i \in 1..(Len(points) - 1) |->
                       LET p == points[i]
                           q == points[i + 1]
                       IN  RSub(RMul(p.x, q.y), RMul(p.y, q.x))])),
         Q(2))

\* abs(sum(px * qy - py * qx for (p, q) in zip(points, points[1:] + points))) / 2
Polygon_area(points) ==
    RDiv(RAbs(RSum([i \in 1..Len(points) |->
                       LET p == points[i]
                           q == (Tail(points) \o points)[i]
                       IN  RSub(RMul(p.x, q.y), RMul(p.y, q.x))])),
         Q(2))

\* mutant: vertex i paired with edge i, zip(unpack(self), segments)
Polygon_medians_unshifted(points) ==
    LET segments == Polygon_segments(points)
    IN  List([i \in 1..Len(points) |-> Segment_median(segments[i], points[i])])

\* zip(unpack(self), segments[1:] + segments) through s.median(p)
Polygon_medians(points) ==
    LET segments == Polygon_segments(points)
    IN  List([i \in 1..Len(points) |->
                 Segment_median((Tail(segments) \o segments)[i], points[i])])

Polygon_perpendicular_bisectors(points) ==
    LET segments == Polygon_segments(points)
    IN  Collect([i \in 1..Len(segments) |->
                    Segment_perpendicular_bisector(segments[i])])

\* mutant: vertex i paired with edge i, zip(unpack(self), segments)
Polygon_perpendicular_heights_unshifted(points) ==
    LET segments == Polygon_segments(points)
    IN  Collect([i \in 1..Len(points) |->
                    Segment_perpendicular(segments[i], points[i])])

\* zip(unpack(self), segments[1:] + segments) through s.perpendicular(p)
Polygon_perpendicular_heights(points) ==
    LET segments == Polygon_segments(points)
    IN  Collect([i \in 1..Len(points) |->
                    Segment_perpendicular((Tail(segments) \o segments)[i], points[i])])

Polygon_centroid(points) ==
    LET m == midpoint(points) IN Point(m[1], m[2])

Polygon_circumcenter(points) ==
    IF Len(points) # 3 THEN Error("AssertionError")
    ELSE LET bs == Polygon_perpendicular_bisectors(points)
         IN  IF IsError(bs) THEN bs
             ELSE Line_intersect(bs.items[1], bs.items[2])

\* mutant: the number of vertices not asserted
Polygon_orthocenter_unasserted(points) ==
    LET hs == Polygon_perpendicular_heights(points)
    IN  IF IsError(hs) THEN hs
        ELSE Line_intersect(hs.items[1], hs.items[2])

Polygon_orthocenter(points) ==
    IF Len(points) # 3 THEN Error("AssertionError")
    ELSE LET hs == Polygon_perpendicular_heights(points)
         IN  IF IsError(hs) THEN hs
             ELSE Line_intersect(hs.items[1], hs.items[2])

\* euler(): from_points reads a.x of the circumcenter (None has no x) and
\* gradient unpacks it as a pair (a Line does not unpack into two values)
Polygon_euler(points) ==
    IF Len(points) # 3 THEN Error("AssertionError")
    ELSE LET O == Polygon_circumcenter(points)
             G == Polygon_centroid(points)
         IN  IF IsError(O) THEN O
             ELSE IF O.kind = "None" THEN Error("AttributeError")
             ELSE IF O.kind = "Line" THEN Error("ValueError")
             ELSE Line_from_points(O, G)

\* --------------------------------------------------------------- inputs
Coord == 0..MaxCoord
Points == {Point(Q(x), Q(y)) : x \in Coord, y \in Coord}
Icpts == {Q(i) : i \in -MaxIcpt..MaxIcpt}
Slopes == {Q(i) : i \in -MaxSlope..MaxSlope}
Coefs == {Q(i) : i \in -MaxCoef..MaxCoef}
Scales == {Q(i) : i \in (-MaxScale..MaxScale) \ {0}}
\* the vertices of the 4-vertex polygons: two rows of points
QuadPoints == {Point(Q(x), Q(y)) : x \in 0..MaxQuadCoord, y \in 0..1}

\* the Lines with int fields that the constructors produce from ints
IntLines ==
    {Line_vline(x) : x \in Icpts} \cup {Line_hline(y) : y \in Icpts}
    \cup {Line_from_slope_intercept_form(Q(m), q) :
              m \in -MaxIntSlope..MaxIntSlope, q \in Icpts}

\* the Lines the constructors produce from the bounded inputs
Lines ==
    {Line_vline(x) : x \in Icpts} \cup {Line_hline(y) : y \in Icpts}
    \cup {Line_from_slope_intercept_form(m, q) : m \in Slopes, q \in Icpts}
    \cup {Line_from_points(p, q) : p \in Points, q \in Points}

\* the tolerance values a caller assigns (all >= 0)
Tolerances == {Q(0), Rat(1, EpsilonDenominator), Rat(1, 2)}

\* what a caller holds before it calls: the operands of the next operations
Inputs ==
    {[kind |-> "lines", l1 |-> l1, l2 |-> l2] : l1 \in Lines, l2 \in Lines}
    \cup {[kind |-> "int_lines", l1 |-> l1, l2 |-> l2] :
             l1 \in IntLines, l2 \in IntLines}
    \cup {[kind |-> "line_point", l |-> l, p |-> p] : l \in Lines, p \in Points}
    \cup {[kind |-> "points", p |-> p, q |-> q] : p \in Points, q \in Points}
    \cup {[kind |-> "polygon", points |-> <<A, B, C>>] :
             A \in Points, B \in Points, C \in Points}
    \cup {[kind |-> "polygon", points |-> <<A, B, C, D>>] :
             A \in QuadPoints, B \in QuadPoints, C \in QuadPoints, D \in QuadPoints}
    \cup {[kind |-> "coefs", a |-> a, b |-> b, c |-> c, k |-> k] :
             a \in Coefs, b \in Coefs, c \in Coefs, k \in Scales}
    \cup {[kind |-> "scalars", u |-> u, v |-> v] : u \in Slopes, v \in Icpts}
    \cup {[kind |-> "point_slope", p |-> p, m |-> m] : p \in Points, m \in Slopes}

\* --------------------------------------------------------------- machine
Init ==
    /\ EPSILON = Rat(1, EpsilonDenominator)
    /\ args \in Inputs
    /\ op = "init"
    /\ res = NONE

\* EPSILON.value = e
SetEpsilon ==
    \E e \in Tolerances :
        /\ EPSILON' = e
        /\ op' = "set_epsilon"
        /\ res' = NONE
        /\ UNCHANGED args

\* the statement obj.name = value, for the operand `held` of the bundle
Assign(held, obj, name, value) ==
    LET r == Frozen_setattr(obj, name, value)
    IN  /\ args' = [args EXCEPT ![held] = r.obj]
        /\ op' = "setattr"
        /\ res' = r.raised
        /\ UNCHANGED EPSILON

\* p.x = v, l.a = v, polygon.A = Point(v, v)
SetAttr ==
    \E v \in Coord :
        \/ args.kind = "line_point" /\ Assign("p", args.p, "x", Q(v))
        \/ args.kind = "line_point" /\ Assign("l", args.l, "a", Q(v))
        \/ /\ args.kind = "polygon"
           /\ Assign("points", args.points, 1, Point(Q(v), Q(v)))

\* the caller receives the value `v` of the operation `name`
Return(name, v) ==
    /\ op' = name
    /\ res' = v
    /\ UNCHANGED <<EPSILON, args>>

\* l1 & l2
Intersect ==
    /\ args.kind = "lines"
    /\ Return("intersect", Line_intersect(args.l1, args.l2))

\* (l1 & l2, l2 & l1), as the interpreter computes the two Points
IntersectBothWays ==
    /\ args.kind = "int_lines"
    /\ Return("intersect_both",
              [kind |-> "Pair",
               fst |-> Line_intersect_binary64(args.l1, args.l2),
               snd |-> Line_intersect_binary64(args.l2, args.l1)])

\* p in l
Contains ==
    /\ args.kind = "line_point"
    /\ Return("contains", Bool(Line_contains(args.l, args.p)))

\* Line(a, b, c) == Line(k*a, k*b, k*c)
EqScaled ==
    /\ args.kind = "coefs"
    /\ Return("eq", Bool(Line_eq(Line(args.a, args.b, args.c),
                                 Line(RMul(args.k, args.a), RMul(args.k, args.b),
                                      RMul(args.k, args.c)))))

\* hash(Line(a, b, c)) == hash(Line(k*a, k*b, k*c))
HashScaled ==
    /\ args.kind = "coefs"
    /\ Return("hash_eq",
              Bool(Line_hash(Line(args.a, args.b, args.c))
                   = Line_hash(Line(RMul(args.k, args.a), RMul(args.k, args.b),
                                    RMul(args.k, args.c)))))

\* l1 == l2
Eq ==
    /\ args.kind = "lines"
    /\ Return("eq_lines", Bool(Line_eq(args.l1, args.l2)))

Vline ==
    /\ args.kind = "scalars"
    /\ Return("vline", Line_vline(args.v))

Hline ==
    /\ args.kind = "scalars"
    /\ Return("hline", Line_hline(args.v))

FromSlopeInterceptForm ==
    /\ args.kind = "scalars"
    /\ Return("from_slope_intercept_form",
              Line_from_slope_intercept_form(args.u, args.v))

FromPointSlopeForm ==
    /\ args.kind = "point_slope"
    /\ Return("from_point_slope_form", Line_from_point_slope_form(args.p, args.m))

FromPoints ==
    /\ args.kind = "points"
    /\ Return("from_points", Line_from_points(args.p, args.q))

\* Segment(p, q).perpendicular_bisector()
PerpendicularBisector ==
    /\ args.kind = "points"
    /\ Return("perpendicular_bisector",
              Segment_perpendicular_bisector(Segment(args.p, args.q)))

Centroid ==
    /\ args.kind = "polygon"
    /\ Return("centroid", Polygon_centroid(args.points))

Circumcenter ==
    /\ args.kind = "polygon"
    /\ Return("circumcenter", Polygon_circumcenter(args.points))

Orthocenter ==
    /\ args.kind = "polygon"
    /\ Return("orthocenter", Polygon_orthocenter(args.points))

Euler ==
    /\ args.kind = "polygon"
    /\ Return("euler", Polygon_euler(args.points))

\* Line(a, b, c).slope()
Slope ==
    /\ args.kind = "coefs"
    /\ Return("slope", FloatOrError(Line_slope(Line(args.a, args.b, args.c))))

\* Line(a, b, c).intercept()
Intercept ==
    /\ args.kind = "coefs"
    /\ Return("intercept",
              FloatOrError(Line_intercept(Line(args.a, args.b, args.c))))

\* p.dist(q)
PointDist ==
    /\ args.kind = "points"
    /\ Return("point_dist", Point_dist(args.p, args.q))

\* p.dist(l)
PointDistLine ==
    /\ args.kind = "line_point"
    /\ Return("point_dist_line", Point_dist(args.p, args.l))

\* l1.dist(l2)
LineDist ==
    /\ args.kind = "lines"
    /\ Return("line_dist", Line_dist(args.l1, args.l2))

\* l1 ^ l2
Bisect ==
    /\ args.kind = "lines"
    /\ Return("bisect", Line_bisect(args.l1, args.l2))

\* l.perpendicular(p)
Perpendicular ==
    /\ args.kind = "line_point"
    /\ Return("perpendicular", Line_perpendicular(args.l, args.p))

\* l(x=p.x)
CallX ==
    /\ args.kind = "line_point"
    /\ Return("call_x", FloatOrError(Line_call(args.l, args.p.x, NONE)))

\* l(y=p.y)
CallY ==
    /\ args.kind = "line_point"
    /\ Return("call_y", FloatOrError(Line_call(args.l, NONE, args.p.y)))

\* l(x=p.x, y=p.y)
CallBoth ==
    /\ args.kind = "line_point"
    /\ Return("call_xy", FloatOrError(Line_call(args.l, args.p.x, args.p.y)))

\* l()
CallNeither ==
    /\ args.kind = "line_point"
    /\ Return("call_none", FloatOrError(Line_call(args.l, NONE, NONE)))

Segments ==
    /\ args.kind = "polygon"
    /\ Return("segments", List(Polygon_segments(args.points)))

Perimeter ==
    /\ args.kind = "polygon"
    /\ Return("perimeter", Polygon_perimeter(args.points))

Area ==
    /\ args.kind = "polygon"
    /\ Return("area", Float(Polygon_area(args.points)))

Medians ==
    /\ args.kind = "polygon"
    /\ Return("medians", Polygon_medians(args.points))

PerpendicularHeights ==
    /\ args.kind = "polygon"
    /\ Return("perpendicular_heights", Polygon_perpendicular_heights(args.points))

Next ==
    \/ SetEpsilon
    \/ SetAttr
    \/ Intersect
    \/ IntersectBothWays
    \/ Contains
    \/ EqScaled
    \/ HashScaled
    \/ Eq
    \/ Slope
    \/ Intercept
    \/ Vline
    \/ Hline
    \/ FromSlopeInterceptForm
    \/ FromPointSlopeForm
    \/ FromPoints
    \/ PerpendicularBisector
    \/ Centroid
    \/ Circumcenter
    \/ Orthocenter
    \/ Euler
    \/ PointDist
    \/ PointDistLine
    \/ LineDist
    \/ Bisect
    \/ Perpendicular
    \/ CallX
    \/ CallY
    \/ CallBoth
    \/ CallNeither
    \/ Segments
    \/ Perimeter
    \/ Area
    \/ Medians
    \/ PerpendicularHeights

Spec == Init /\ [][Next]_vars

\* ------------------------------------------------------- claim vocabulary
\* a*x + b*y + c at the point p
Residual(l, p) == RAdd(RAdd(RMul(l.a, p.x), RMul(l.b, p.y)), l.c)

\* p lies on l exactly
On(l, p) == Residual(l, p) = Q(0)

\* the square of the Euclidean distance of p and q
Dist2(p, q) ==
    RAdd(RMul(RSub(p.x, q.x), RSub(p.x, q.x)), RMul(RSub(p.y, q.y), RSub(p.y, q.y)))

\* (q - p) x (r - p): zero iff p, q, r are collinear
Cross(p, q, r) ==
    RSub(RMul(RSub(q.x, p.x), RSub(r.y, p.y)), RMul(RSub(q.y, p.y), RSub(r.x, p.x)))

Collinear(p, q, r) == Cross(p, q, r) = Q(0)

\* the Line invariant: not (a == 0 and b == 0)
Proper(l) == ~(l.a = Q(0) /\ l.b = Q(0))

\* the directions of two proper lines agree
SameDirection(l1, l2) == RMul(l1.a, l2.b) = RMul(l2.a, l1.b)

\* two proper lines are the same set of points: their triples are proportional
SamePointSet(l1, l2) ==
    /\ SameDirection(l1, l2)
    /\ RMul(l1.a, l2.c) = RMul(l2.a, l1.c)
    /\ RMul(l1.b, l2.c) = RMul(l2.b, l1.c)

\* ------------------------------------------------------------------ C1
\* C1: for all Lines l1, l2 whose slopes differ, l1 & l2 is a Point that is
\* contained in both l1 and l2.
C1_IntersectOfNonParallelIsCommonPoint ==
    (op = "intersect" /\ Line_slope(args.l1) # Line_slope(args.l2))
        => /\ res.kind = "Point"
           /\ Line_contains(args.l1, res)
           /\ Line_contains(args.l2, res)

\* ------------------------------------------------------------------ C2
\* C2: for two Lines of equal slope and different intercept, intersect returns
\* None, in both argument orders (never a Point, never a Line).
C2_ParallelDistinctIntersectIsNone ==
    (/\ op = "intersect"
     /\ Line_slope(args.l1) = Line_slope(args.l2)
     /\ Line_intercept(args.l1) # Line_intercept(args.l2))
        => /\ res = NONE
           /\ Line_intersect(args.l2, args.l1) = NONE

C2_Witness ==
    /\ op = "intersect"
    /\ Line_slope(args.l1) = Line_slope(args.l2)
    /\ Line_intercept(args.l1) # Line_intercept(args.l2)
    /\ res = NONE

\* ------------------------------------------------------------------ C3
\* C3: for every Line l, vertical ones included, l & l is a Line that compares
\* equal to l.
C3_SelfIntersectIsEqualLine ==
    (op = "intersect" /\ args.l1 = args.l2)
        => /\ res.kind = "Line"
           /\ Line_eq(res, args.l1)
           /\ Line_eq(args.l1, res)

C3_Witness ==
    /\ op = "intersect"
    /\ args.l1 = args.l2
    /\ args.l1.b = Q(0)
    /\ args.l1.a # Q(0)
    /\ res.kind = "Line"

\* ------------------------------------------------------------------ C4
\* C4: for Lines that keep the Line invariant, intersect returns a Line only
\* when both are the same set of points, None when they share no point and a
\* Point when they share exactly one.
C4_IntersectClassifiesGeometrically ==
    (op = "intersect" /\ Proper(args.l1) /\ Proper(args.l2))
        => /\ res.kind = "Line" => SamePointSet(args.l1, args.l2)
           /\ (SameDirection(args.l1, args.l2) /\ ~SamePointSet(args.l1, args.l2))
                  => res = NONE
           /\ ~SameDirection(args.l1, args.l2) => res.kind = "Point"

\* ------------------------------------------------------------------ C5
\* C5: for (a, b) # (0, 0) and a nonzero scalar k,
\* Line(a, b, c) == Line(k*a, k*b, k*c).
C5_ScaledTriplesCompareEqual ==
    (op = "eq" /\ ~(args.a = Q(0) /\ args.b = Q(0)) /\ args.k # Q(0))
        => res = Bool(TRUE)

C5_Witness ==
    /\ op = "eq"
    /\ args.a # Q(0)
    /\ args.b # Q(0)
    /\ args.c # Q(0)
    /\ args.k = Q(-2)
    /\ res = Bool(TRUE)

\* ------------------------------------------------------------------ C6
\* C6: for Points p # q, Line.from_points(p, q) contains p and q, in the
\* vertical case (p.x = q.x) and in the slope case.
C6_FromPointsContainsBoth ==
    (op = "from_points" /\ args.p # args.q)
        => /\ res.kind = "Line"
           /\ Line_contains(res, args.p)
           /\ Line_contains(res, args.q)

C6_Witness ==
    /\ op = "from_points"
    /\ args.p.x # args.q.x
    /\ args.p.y # args.q.y
    /\ EPSILON = Q(0)
    /\ Line_contains(res, args.p)
    /\ Line_contains(res, args.q)

\* ------------------------------------------------------------------ C7
\* C7: every Line a constructor returns, and every Line a derivation returns
\* from operands that keep the invariant, satisfies not (a == 0 and b == 0).
C7_LineInvariant ==
    (/\ op \in {"vline", "hline", "from_slope_intercept_form",
                "from_point_slope_form", "from_points", "perpendicular_bisector",
                "intersect"}
     /\ res.kind = "Line"
     /\ op = "intersect" => Proper(args.l1) /\ Proper(args.l2))
        => Proper(res)

\* ------------------------------------------------------------------ C8
\* C8: whatever tolerance reassignments came before it, a query `p in l`
\* answers true iff |a*x + b*y + c| <= the tolerance current at the query.
C8_ContainsReadsCurrentTolerance ==
    op = "contains"
        => res = Bool(RLe(RAbs(Residual(args.l, args.p)), EPSILON))

\* a query after a reassignment whose answer differs from the one the initial
\* tolerance would give
C8_Witness ==
    /\ op = "contains"
    /\ EPSILON = Rat(1, 2)
    /\ res = Bool(TRUE)
    /\ ~RLe(RAbs(Residual(args.l, args.p)), Rat(1, EpsilonDenominator))

\* ------------------------------------------------------------------ C9
\* C9: for a triangle (with vertices that are not collinear), centroid,
\* circumcenter and orthocenter are Points, they are collinear, and
\* 2 * dist(centroid, circumcenter) = dist(centroid, orthocenter); the equality
\* is stated on the squares, which puts the difference within every tolerance.
C9_EulerLineRelation ==
    (/\ op = "circumcenter"
     /\ Len(args.points) = 3
     /\ ~Collinear(args.points[1], args.points[2], args.points[3]))
        => LET G == Polygon_centroid(args.points)
               O == res
               H == Polygon_orthocenter(args.points)
           IN  /\ G.kind = "Point" /\ O.kind = "Point" /\ H.kind = "Point"
               /\ Collinear(G, O, H)
               /\ RMul(Q(4), Dist2(G, O)) = Dist2(G, H)

\* ------------------------------------------------------------------ C10
\* C10: for a 3-vertex Polygon whose vertices are not collinear, circumcenter()
\* is a Point at the same distance from all three vertices.
C10_CircumcenterEquidistant ==
    (/\ op = "circumcenter"
     /\ Len(args.points) = 3
     /\ ~Collinear(args.points[1], args.points[2], args.points[3]))
        => /\ res.kind = "Point"
           /\ Dist2(res, args.points[1]) = Dist2(res, args.points[2])
           /\ Dist2(res, args.points[2]) = Dist2(res, args.points[3])

\* ------------------------------------------------- polygon vocabulary
\* vertex i of the polygon, the index taken mod n (Vertex(ps, n + 1) is ps[1])
Vertex(ps, i) == ps[((i - 1) % Len(ps)) + 1]

\* the line l is perpendicular to the direction from p to q
PerpendicularTo(l, p, q) ==
    RMul(l.b, RSub(q.x, p.x)) = RMul(l.a, RSub(q.y, p.y))

\* no two vertices share an x-coordinate
NoSharedX(ps) ==
    \A i \in 1..Len(ps) : \A j \in 1..Len(ps) : i # j => ps[i].x # ps[j].x

\* the midpoint of p and q
Mid(p, q) == Point(RDiv(RAdd(p.x, q.x), Q(2)), RDiv(RAdd(p.y, q.y), Q(2)))

\* the sum over i in 1..k of x_i * y_(i+1) - y_i * x_(i+1), indices mod n
RECURSIVE Shoelace(_, _)
Shoelace(ps, k) ==
    IF k = 0 THEN Q(0)
    ELSE RAdd(Shoelace(ps, k - 1),
              RSub(RMul(Vertex(ps, k).x, Vertex(ps, k + 1).y),
                   RMul(Vertex(ps, k).y, Vertex(ps, k + 1).x)))

\* ------------------------------------------------------------------ C11
\* C11: for a 3-vertex Polygon with vertices that are not collinear and no two
\* of which share an x-coordinate, perpendicular_heights() returns three lines,
\* line i through v_i and perpendicular to the opposite edge
\* (v_(i+1), v_(i+2)), and orthocenter() returns a Point on all three.
C11_HeightsAndOrthocenter ==
    (/\ args.kind = "polygon"
     /\ Len(args.points) = 3
     /\ ~Collinear(args.points[1], args.points[2], args.points[3])
     /\ NoSharedX(args.points))
        => /\ op = "perpendicular_heights"
                => /\ res.kind = "List"
                   /\ Len(res.items) = 3
                   /\ \A i \in 1..3 :
                          /\ res.items[i].kind = "Line"
                          /\ On(res.items[i], Vertex(args.points, i))
                          /\ PerpendicularTo(res.items[i], Vertex(args.points, i + 1),
                                             Vertex(args.points, i + 2))
           /\ op = "orthocenter"
                => /\ res.kind = "Point"
                   /\ \A i \in 1..3 :
                          On(Polygon_perpendicular_heights(args.points).items[i], res)

C11_Witness ==
    /\ op = "orthocenter"
    /\ args.kind = "polygon"
    /\ Len(args.points) = 3
    /\ ~Collinear(args.points[1], args.points[2], args.points[3])
    /\ NoSharedX(args.points)
    /\ res.kind = "Point"

\* ------------------------------------------------------------------ C12
\* C12 as stated, for the 3-vertex polygons with vertices that are not
\* collinear: for every edge i (from v_i to v_(i+1)) a returned height is
\* the perpendicular to edge i through vertex i+1, and a returned median runs
\* from vertex i+1 to the midpoint of edge i.
C12_PairsEdgeWithNextVertex ==
    (/\ args.kind = "polygon"
     /\ Len(args.points) = 3
     /\ ~Collinear(args.points[1], args.points[2], args.points[3]))
    =>
    /\ (op = "perpendicular_heights" /\ res.kind = "List")
           => \A i \in 1..Len(args.points) : \E j \in 1..Len(res.items) :
                  /\ On(res.items[j], Vertex(args.points, i + 1))
                  /\ PerpendicularTo(res.items[j], Vertex(args.points, i),
                                     Vertex(args.points, i + 1))
    /\ op = "medians"
           => \A i \in 1..Len(args.points) : \E j \in 1..Len(res.items) :
                  res.items[j] = Segment(Vertex(args.points, i + 1),
                                         Mid(Vertex(args.points, i),
                                             Vertex(args.points, i + 1)))

\* C12 amended: vertex i is paired with edge i+1 (from v_(i+1) to v_(i+2)), the
\* edge one position ahead of the vertex: the i-th height returned is the
\* perpendicular to edge i+1 through vertex i, and the i-th median runs from
\* vertex i to the midpoint of edge i+1.
C12_PairsVertexWithNextEdge ==
    /\ (op = "perpendicular_heights" /\ res.kind = "List")
           => /\ Len(res.items) = Len(args.points)
              /\ \A i \in 1..Len(args.points) :
                     /\ On(res.items[i], Vertex(args.points, i))
                     /\ PerpendicularTo(res.items[i], Vertex(args.points, i + 1),
                                        Vertex(args.points, i + 2))
    /\ op = "medians"
           => /\ res.kind = "List"
              /\ Len(res.items) = Len(args.points)
              /\ \A i \in 1..Len(args.points) :
                     res.items[i] = Segment(Vertex(args.points, i),
                                            Mid(Vertex(args.points, i + 1),
                                                Vertex(args.points, i + 2)))

\* the medians of a 4-vertex polygon whose vertices are all different
C12_Witness ==
    /\ op = "medians"
    /\ Len(args.points) = 4
    /\ \A i \in 1..4 : \A j \in 1..4 : i # j => args.points[i] # args.points[j]
    /\ res.kind = "List"

\* ------------------------------------------------------------------ C13
\* C13: area() is |sum over i of (x_i * y_(i+1) - y_i * x_(i+1))| / 2 with the
\* indices mod n (the closing term counted once), it is >= 0, and it is 0,
\* without an error, when the vertices are collinear.
C13_AreaIsShoelace ==
    op = "area"
        => /\ res = Float(RDiv(RAbs(Shoelace(args.points, Len(args.points))), Q(2)))
           /\ RLe(Q(0), res.v)
           /\ (\A i, j, k \in 1..Len(args.points) :
                   Collinear(args.points[i], args.points[j], args.points[k]))
                  => res.v = Q(0)

\* a 4-vertex polygon whose closing term is not zero
C13_Witness ==
    /\ op = "area"
    /\ Len(args.points) = 4
    /\ RMul(args.points[4].x, args.points[1].y)
           # RMul(args.points[4].y, args.points[1].x)
    /\ res.v # Q(0)

\* ------------------------------------------------------------------ C14
\* C14: segments() returns the n Segments (v_i, v_(i+1 mod n)) in vertex order,
\* and perimeter() is the sum of the lengths of these n edges.
C14_SegmentsAndPerimeter ==
    /\ op = "segments"
           => /\ res.kind = "List"
              /\ Len(res.items) = Len(args.points)
              /\ \A i \in 1..Len(args.points) :
                     res.items[i] = Segment(Vertex(args.points, i),
                                            Vertex(args.points, i + 1))
    /\ op = "perimeter"
           => res = RootSum([i \in 1..Len(args.points) |->
                                Dist2(Vertex(args.points, i),
                                      Vertex(args.points, i + 1))])

\* the perimeter of a 4-vertex polygon whose closing edge has a length
C14_Witness ==
    /\ op = "perimeter"
    /\ Len(args.points) = 4
    /\ args.points[4] # args.points[1]
    /\ Len(res.terms) = 4
    /\ res.terms[4] # Q(0)

\* ------------------------------------------------------------------ C15
\* C15: for every Segment with A # B, perpendicular_bisector() returns a Line
\* that contains the midpoint of the segment and is perpendicular to it.
C15_BisectorIsPerpendicularThroughMidpoint ==
    (op = "perpendicular_bisector" /\ args.p # args.q)
        => /\ res.kind = "Line"
           /\ On(res, Mid(args.p, args.q))
           /\ PerpendicularTo(res, args.p, args.q)

\* ------------------------------------------------------------------ C16
\* C16: for every Line l (here: every l with a, b not both zero) and every
\* Point p, l.perpendicular(p) returns a Line that contains p and whose slope
\* is -1 / l.slope().
C16_PerpendicularThroughPoint ==
    (op = "perpendicular" /\ Proper(args.l))
        => /\ res.kind = "Line"
           /\ On(res, args.p)
           /\ Line_slope(res) = XDiv(Q(-1), Line_slope(args.l))

\* ------------------------------------------------- line-pair vocabulary
\* all three coefficients of the line are finite numbers
FiniteLine(l) == IsFinite(l.a) /\ IsFinite(l.b) /\ IsFinite(l.c)

\* a point of the line l (a, b not both zero)
PointOn(l) ==
    IF l.b # Q(0) THEN Point(Q(0), RDiv(RNeg(l.c), l.b))
    ELSE Point(RDiv(RNeg(l.c), l.a), Q(0))

\* the square of the distance from a point of l1 to the line l2
Offset2(l1, l2) ==
    RDiv(RMul(Residual(l2, PointOn(l1)), Residual(l2, PointOn(l1))),
         RAdd(RMul(l2.a, l2.a), RMul(l2.b, l2.b)))

\* ------------------------------------------------------------------ C17
\* C17: for two Lines (a, b not both zero) with equal slopes, l1 ^ l2 is the
\* line with that slope and the mean of the two intercepts; otherwise it is
\* the line through the intersection point of l1 and l2 whose slope is the
\* mean of the two slopes.
C17_BisectByMeanSlope ==
    (op = "bisect" /\ Proper(args.l1) /\ Proper(args.l2))
        => /\ res.kind = "Line"
           /\ IF Line_slope(args.l1) = Line_slope(args.l2)
              THEN /\ Line_slope(res) = Line_slope(args.l1)
                   /\ Line_intercept(res)
                          = mean2(Line_intercept(args.l1), Line_intercept(args.l2))
              ELSE /\ Line_slope(res)
                          = mean2(Line_slope(args.l1), Line_slope(args.l2))
                   /\ FiniteLine(res)
                   /\ On(res, Line_intersect(args.l1, args.l2))

\* ------------------------------------------------------------------ C18
\* C18: for two different Lines (a, b not both zero; a line with itself is
\* C19), l1.dist(l2) is 0 when the slopes differ, and otherwise it is the
\* perpendicular offset between the two parallel lines: the distance from a
\* point of l1 to l2.
C18_LineDistIsOffset ==
    (/\ op = "line_dist"
     /\ Proper(args.l1)
     /\ Proper(args.l2)
     /\ args.l1 # args.l2)
        => IF Line_slope(args.l1) # Line_slope(args.l2)
           THEN res = Root(Q(0))
           ELSE res = Root(Offset2(args.l1, args.l2))

\* ------------------------------------------------------------------ C19
\* C19: the distance of a line (a, b not both zero) to itself is zero.
C19_DistToSelfIsZero ==
    (op = "line_dist" /\ args.l1 = args.l2 /\ Proper(args.l1))
        => res = Root(Q(0))

\* ------------------------------------------------------------------ C20
\* C20 as stated, for the lines with a, b not both zero: l(x=x0) returns a y
\* with a*x0 + b*y + c = 0, and l(y=y0) returns an x with a*x + b*y0 + c = 0.
C20_CallSolvesEquation ==
    /\ (op = "call_x" /\ Proper(args.l))
           => res.kind = "Float" /\ On(args.l, Point(args.p.x, res.v))
    /\ (op = "call_y" /\ Proper(args.l))
           => res.kind = "Float" /\ On(args.l, Point(res.v, args.p.y))

\* C20, amended: l(x=x0) returns a y with a*x0 + b*y + c = 0 whenever such a
\* y exists (b # 0, or a*x0 + c = 0), and l(y=y0) returns an x with
\* a*x + b*y0 + c = 0 whenever such an x exists (a # 0, or b*y0 + c = 0).
C20_CallSolvesWhenSolvable ==
    /\ (/\ op = "call_x"
        /\ \/ args.l.b # Q(0)
           \/ RAdd(RMul(args.l.a, args.p.x), args.l.c) = Q(0))
           => res.kind = "Float" /\ On(args.l, Point(args.p.x, res.v))
    /\ (/\ op = "call_y"
        /\ \/ args.l.a # Q(0)
           \/ RAdd(RMul(args.l.b, args.p.y), args.l.c) = Q(0))
           => res.kind = "Float" /\ On(args.l, Point(res.v, args.p.y))

\* a sloped line evaluated at an x where the y it returns is not 0
C20_Witness ==
    /\ op = "call_x"
    /\ args.l.a # Q(0)
    /\ args.l.b # Q(0)
    /\ res.kind = "Float"
    /\ res.v # Q(0)
    /\ On(args.l, Point(args.p.x, res.v))

\* ------------------------------------------------------------------ C21
\* C21: l(x=..., y=...) raises GeometryException if and only if both or
\* neither of x, y are given; with exactly one of them (the value 0 included)
\* it returns a float.
C21_InvalidArgumentIffBothOrNeither ==
    /\ op \in {"call_xy", "call_none"} => res = Error("GeometryException")
    /\ op \in {"call_x", "call_y"} => res.kind = "Float"

\* the line evaluated at x = 0 alone
C21_Witness ==
    /\ op = "call_x"
    /\ args.p.x = Q(0)
    /\ res.kind = "Float"

\* ------------------------------------------------------------------ C22
\* C22: circumcenter(), orthocenter() and euler() of a polygon that has not
\* exactly 3 vertices raise AssertionError to the caller; with exactly 3
\* vertices they never raise AssertionError.
C22_TriangleOnlyAssertion ==
    op \in {"circumcenter", "orthocenter", "euler"}
        => IF Len(args.points) # 3
           THEN res = Error("AssertionError")
           ELSE res # Error("AssertionError")

\* euler() called on a 4-vertex polygon
C22_Witness ==
    /\ op = "euler"
    /\ Len(args.points) = 4
    /\ res = Error("AssertionError")

\* ------------------------------------------------------------------ C23
\* C23: slope() and intercept() never raise: for b # 0 they return -a/b and
\* -c/b, and for b = 0 they return an infinity.
C23_SlopeAndInterceptNeverFail ==
    /\ op = "slope"
           => /\ res.kind = "Float"
              /\ IF args.b # Q(0) THEN res.v = RDiv(RNeg(args.a), args.b)
                 ELSE res.v \in {INF, NINF}
    /\ op = "intercept"
           => /\ res.kind = "Float"
              /\ IF args.b # Q(0) THEN res.v = RDiv(RNeg(args.c), args.b)
                 ELSE res.v \in {INF, NINF}

\* the slope of a vertical line
C23_Witness ==
    /\ op = "slope"
    /\ args.b = Q(0)
    /\ args.a # Q(0)
    /\ res = Float(INF)

\* ------------------------------------------------------------------ C24
\* C24: for every Point p and every Line l that a Line constructor produced,
\* p.dist(l) raises nothing and returns |a*x + b*y + c| / sqrt(a^2 + b^2), the
\* value that l.dist(p) returns.
C24_PointLineDistNeverFails ==
    op = "point_dist_line"
        => /\ ~IsError(res)
           /\ res = Root(RDiv(RMul(Residual(args.l, args.p),
                                   Residual(args.l, args.p)),
                              RAdd(RMul(args.l.a, args.l.a),
                                   RMul(args.l.b, args.l.b))))
           /\ res = Line_dist(args.l, args.p)

\* ------------------------------------------------------------------ C26
\* C26: for all Points p, q: p.dist(q) = q.dist(p), and p.dist(p) = 0.
C26_PointDistSymmetric ==
    op = "point_dist"
        => /\ res = Point_dist(args.q, args.p)
           /\ args.p = args.q => res = Root(Q(0))

\* the distance between two different points
C26_Witness ==
    /\ op = "point_dist"
    /\ args.p # args.q
    /\ res.kind = "Root"
    /\ res.sq # Q(0)

\* ------------------------------------------------------------------ C25
\* C25: no operation changes a field of a Point, Line, Segment or Polygon the
\* caller holds (every step leaves the operands as they were), and an
\* assignment to a field of one of them is rejected with FrozenInstanceError.
C25_ValuesAreNeverMutated ==
    [][/\ args' = args
       /\ op' = "setattr" => res' = Error("FrozenInstanceError")]_vars

\* an assignment to the first vertex of a polygon was attempted
C25_Witness ==
    /\ op = "setattr"
    /\ args.kind = "polygon"
    /\ res = Error("FrozenInstanceError")

\* ------------------------------------------------------------------ C27
\* C27: Line.hline(y0) is the horizontal line at height y0: it contains every
\* Point (x, y0), and no Point whose y differs from y0 by more than the
\* tolerance.
C27_HlineIsHorizontalAtHeight ==
    \A y0 \in Icpts :
        (op = "contains" /\ args.l = Line_hline(y0))
            => /\ args.p.y = y0 => res = Bool(TRUE)
               /\ ~RLe(RAbs(RSub(args.p.y, y0)), EPSILON) => res = Bool(FALSE)

\* ------------------------------------------------------------------ C28
\* C28: two Lines (a, b not both zero) that compare equal describe the same
\* geometric line: every point on one is on the other. In particular two
\* vertical lines at different x do not compare equal.
C28_EqualLinesAreTheSameLine ==
    (/\ op = "eq_lines"
     /\ Proper(args.l1)
     /\ Proper(args.l2)
     /\ res = Bool(TRUE))
        => SamePointSet(args.l1, args.l2)

\* ------------------------------------------------------------------ C30
\* C30: two Lines (a, b not both zero) that compare equal have the same hash,
\* the hash generated from the fields (a, b, c).
C30_EqualLinesHashEqual ==
    (/\ op = "hash_eq"
     /\ ~(args.a = Q(0) /\ args.b = Q(0))
     /\ Line_eq(Line(args.a, args.b, args.c),
                Line(RMul(args.k, args.a), RMul(args.k, args.b),
                     RMul(args.k, args.c))))
        => res = Bool(TRUE)

\* ------------------------------------------------------------------ C29
\* C29: l1 & l2 and l2 & l1 are the same kind of outcome (both None, both a
\* Point, or both a Line) and, when not None, compare equal.
C29_IntersectCommutes ==
    op = "intersect_both"
        => /\ res.fst.kind = res.snd.kind
           /\ res.fst.kind = "Point" => res.fst = res.snd
           /\ res.fst.kind = "Line" => Line_eq(res.fst, res.snd)

====
